---- MODULE Spec2Model ----
(***************************************************************************)
(* Model of the two autocomplete hooks of deel-autocomplete:               *)
(*   useAutocomplete            (live query: one fetch per input change)   *)
(*   useAutocompleteLoadingOnce (preload: one fetch at mount, local filter)*)
(* One hook instance is modelled; `variant` says which of the two it is.   *)
(* Every event handler runs to completion on the UI thread, so each        *)
(* handler (and each fetch continuation after its awaits) is one action.   *)
(***************************************************************************)
EXTENDS Integers, Sequences, FiniteSets, TLC

VARIABLES
    variant,              \* "live" | "preload": which hook this instance runs
    phase,                \* "rendered" (first render done, effects pending) | "mounted" | "unmounted"
    inputValue,           \* useState(query)
    allSuggestions,       \* useState<Suggestion[]>([])   (preload hook only)
    filteredSuggestions,  \* useState<Suggestion[]>([])
    highlightedIndex,     \* useState(-1)
    showSuggestions,      \* useState(false)
    loading,              \* useState(false)
    error,                \* useState<string | null>(null)
    inflight,             \* queries of the fetches awaiting their response, oldest first
    listeners,            \* number of mousedown listeners this instance has on document
    fetchCount,           \* number of fetch() calls made so far
    onSelectCalls,        \* arguments of the onSelect calls made by the step just taken
    last,                 \* the step just taken: event, its input, selected item, uncaught throw
    history               \* what the past steps were: see History below

vars == <<variant, phase, inputValue, allSuggestions, filteredSuggestions,
          highlightedIndex, showSuggestions, loading, error, inflight,
          listeners, fetchCount, onSelectCalls, last, history>>

----------------------------------------------------------------------------
(* Bounds                                                                  *)

\* fetch() calls one instance may make (also bounds the requests in flight)
MaxFetches == 3

\* consecutive ArrowDown presses that are counted
MaxPresses == 3

----------------------------------------------------------------------------
(* Strings are sequences of one-character strings.                         *)

Null == "null"

Lower(c) == CASE c = "A" -> "a" [] c = "B" -> "b" [] OTHER -> c

toLowerCase(s) == [i \in DOMAIN s |-> Lower(s[i])]

includes(s, sub) ==
    \E i \in 0..(Len(s) - Len(sub)) : SubSeq(s, i + 1, i + Len(sub)) = sub

\* truthiness of the `string | null` error state: null and '' are falsy
Truthy(e) == e # Null /\ e # ""

----------------------------------------------------------------------------
(* The remote collaborator and the user's inputs                           *)

\* records of the users endpoint; they carry more fields than a Suggestion
Users == << [id |-> 1, name |-> <<"A", "b">>, username |-> "u1"],
            [id |-> 2, name |-> <<"B", "a">>, username |-> "u2"],
            [id |-> 3, name |-> <<"B">>,      username |-> "u3"] >>

\* bodies a 2xx response may carry: the endpoint ignores ?q=, but the hooks
\* do not rely on that, so shorter lists are possible too
Responses == { Users, SubSeq(Users, 1, 2), <<>> }

\* ways a fetch fails inside the try block: non-2xx status, network-level
\* rejection of fetch(), response.json() rejecting on a malformed body
Failures == { "http", "network", "parse" }

\* values a change event may carry
Inputs == { <<>>, <<"a">>, <<"a", "b">>, <<"B">> }

\* the `query` prop (initial input value); Autocomplete.tsx passes ''
InitialQueries == { <<>>, <<"a">> }

Keys == { "ArrowDown", "ArrowUp", "Enter", "Escape" }

\* `Error fetching suggestions - ${error}, please try again later`
ErrorMessage(kind) ==
    IF kind = "http"
    THEN "Error fetching suggestions - Error: HTTP error! status, please try again later"
    ELSE IF kind = "network"
    THEN "Error fetching suggestions - TypeError: Failed to fetch, please try again later"
    ELSE "Error fetching suggestions - SyntaxError: Unexpected token, please try again later"

\* .map(user => ({ id: user.id, name: user.name }))
toSuggestions(data) == [i \in DOMAIN data |-> [id |-> data[i].id, name |-> data[i].name]]

\* .filter(x => x.name.toLowerCase().includes(query.toLowerCase()))
filterByName(list, query) ==
    SelectSeq(list, LAMBDA u : includes(toLowerCase(u.name), toLowerCase(query)))

----------------------------------------------------------------------------
(* What the step just taken was                                            *)

\* ev: the event; key: the key or mousedown target; value: the typed value or
\* the query of the completed fetch; sel: <<s>> when suggestion s was selected;
\* threw: the handler ended in an uncaught exception
Step(ev, key, value, sel, threw) ==
    [ev |-> ev, key |-> key, value |-> value, sel |-> sel, threw |-> threw]

----------------------------------------------------------------------------
(* History of the run, recorded for the properties; no handler reads it    *)

\* newest: the most recently issued request: "none" (nothing issued yet),
\*         "pending", "ok", "failed", or "void" once a selection or a clearing
\*         of the input has happened after it was issued
\* downs:  k > 0 when the last k steps were ArrowDown presses and the highlighted
\*         index was -1 before them (0: otherwise, or more than MaxPresses)
\* closed: a selection has happened and no change event since
\* pressed: the value of downs before the selection the last step made (0 when
\*         the last step selected nothing)
History(newest, downs, closed) ==
    [newest |-> newest, downs |-> downs, closed |-> closed, pressed |-> 0]

\* after a step that is neither a key press, a change, a selection nor a completion
HistOther == [history EXCEPT !.downs = 0, !.pressed = 0]

\* after handleKeyDown(key) when it selects nothing
HistKey(key) ==
    [history EXCEPT !.downs =
        IF key # "ArrowDown" THEN 0
        ELSE IF highlightedIndex = -1 THEN 1
        ELSE IF @ > 0 /\ @ < MaxPresses THEN @ + 1
        ELSE 0,
                    !.pressed = 0]

\* after handleClick(suggestion)
HistSelect == [History("void", 0, TRUE) EXCEPT !.pressed = history.downs]

\* after a change event; newest is the new state of the most recent request
HistChange(newest) == History(newest, 0, FALSE)

\* after the i-th pending request has settled with `outcome`
HistComplete(i, outcome) ==
    [history EXCEPT !.downs = 0,
                    !.pressed = 0,
                    !.newest = IF @ = "pending" /\ i = Len(inflight) THEN outcome ELSE @]

----------------------------------------------------------------------------
(* Rendering                                                               *)

\* renderSuggestions whose last branch tests inputValue only, not showSuggestions
LQ_renderSuggestions_IgnoresVisibility ==
    IF loading THEN "loading"
    ELSE IF Truthy(error) THEN "error"
    ELSE IF inputValue # <<>>
         THEN (IF Len(filteredSuggestions) > 0 THEN "list" ELSE "nomatch")
    ELSE "null"

\* which of its views renderSuggestions returns ("null": no output)
LQ_renderSuggestions ==
    IF loading THEN "loading"
    ELSE IF Truthy(error) THEN "error"
    ELSE IF showSuggestions /\ inputValue # <<>>
         THEN (IF Len(filteredSuggestions) > 0 THEN "list" ELSE "nomatch")
    ELSE "null"

PL_renderSuggestions ==
    IF loading /\ inputValue # <<>> THEN "loading"
    ELSE IF Truthy(error) /\ inputValue # <<>> THEN "error"
    ELSE IF showSuggestions /\ inputValue # <<>>
         THEN (IF Len(filteredSuggestions) > 0 THEN "list" ELSE "nomatch")
    ELSE "null"

renderSuggestions ==
    IF variant = "live" THEN LQ_renderSuggestions ELSE PL_renderSuggestions

\* className of each <li> inside the <ul> renderSuggestions returns, in order
\* (<<>>: null is returned); a suggestion's <li> is 'highlighted' or ''

\* renderSuggestions that renders the no-match <li> after the list items too
LQ_renderedItems_NoMatchAfterList ==
    IF loading THEN <<"loading-message">>
    ELSE IF Truthy(error) THEN <<"error-message">>
    ELSE IF showSuggestions /\ inputValue # <<>>
         THEN [i \in DOMAIN filteredSuggestions |->
                  IF i - 1 = highlightedIndex THEN "highlighted" ELSE ""]
              \o <<"no-suggestions">>
    ELSE <<>>

LQ_renderedItems ==
    IF loading THEN <<"loading-message">>
    ELSE IF Truthy(error) THEN <<"error-message">>
    ELSE IF showSuggestions /\ inputValue # <<>>
         THEN (IF Len(filteredSuggestions) > 0
               THEN [i \in DOMAIN filteredSuggestions |->
                        IF i - 1 = highlightedIndex THEN "highlighted" ELSE ""]
               ELSE <<"no-suggestions">>)
    ELSE <<>>

PL_renderedItems ==
    IF loading /\ inputValue # <<>> THEN <<"loading-message">>
    ELSE IF Truthy(error) /\ inputValue # <<>> THEN <<"error-message">>
    ELSE IF showSuggestions /\ inputValue # <<>>
         THEN (IF Len(filteredSuggestions) > 0
               THEN [i \in DOMAIN filteredSuggestions |->
                        IF i - 1 = highlightedIndex THEN "highlighted" ELSE ""]
               ELSE <<"no-suggestions">>)
    ELSE <<>>

renderedItems ==
    IF variant = "live" THEN LQ_renderedItems ELSE PL_renderedItems

\* suggestionsRef.current: the <ul> of the last render, null when none was rendered
suggestionsRefCurrent == renderSuggestions # "null"

----------------------------------------------------------------------------
(* Initial state: the hook's first render, effects not yet run             *)

Init ==
    /\ variant \in {"live", "preload"}
    /\ phase = "rendered"
    /\ inputValue \in InitialQueries
    /\ allSuggestions = <<>>
    /\ filteredSuggestions = <<>>
    /\ highlightedIndex = -1
    /\ showSuggestions = FALSE
    /\ loading = FALSE
    /\ error = Null
    /\ inflight = <<>>
    /\ listeners = 0
    /\ fetchCount = 0
    /\ onSelectCalls = <<>>
    /\ last = Step("init", "", <<>>, <<>>, FALSE)
    /\ history = History("none", 0, FALSE)

----------------------------------------------------------------------------
(* Mount and unmount (the useEffect bodies and their cleanups)             *)

\* both hooks: document.addEventListener('mousedown', handleClickOutside);
\* preload hook: fetchAllSuggestions() up to its first await
Mount ==
    /\ phase = "rendered"
    /\ phase' = "mounted"
    /\ listeners' = listeners + 1
    /\ IF variant = "preload"
       THEN /\ error' = Null
            /\ loading' = TRUE
            /\ inflight' = Append(inflight, <<>>)
            /\ fetchCount' = fetchCount + 1
       ELSE UNCHANGED <<error, loading, inflight, fetchCount>>
    /\ onSelectCalls' = <<>>
    /\ history' = [HistOther EXCEPT !.newest = IF variant = "preload" THEN "pending" ELSE @]
    /\ last' = Step("mount", "", <<>>, <<>>, FALSE)
    /\ UNCHANGED <<variant, inputValue, allSuggestions, filteredSuggestions,
                   highlightedIndex, showSuggestions>>

\* an effect without its cleanup: the listener stays on document
Unmount_KeepsListener ==
    /\ phase = "mounted"
    /\ phase' = "unmounted"
    /\ UNCHANGED listeners
    /\ onSelectCalls' = <<>>
    /\ history' = HistOther
    /\ last' = Step("unmount", "", <<>>, <<>>, FALSE)
    /\ UNCHANGED <<variant, inputValue, allSuggestions, filteredSuggestions,
                   highlightedIndex, showSuggestions, loading, error, inflight,
                   fetchCount>>

\* effect cleanup: document.removeEventListener('mousedown', handleClickOutside)
Unmount ==
    /\ phase = "mounted"
    /\ phase' = "unmounted"
    /\ listeners' = listeners - 1
    /\ onSelectCalls' = <<>>
    /\ history' = HistOther
    /\ last' = Step("unmount", "", <<>>, <<>>, FALSE)
    /\ UNCHANGED <<variant, inputValue, allSuggestions, filteredSuggestions,
                   highlightedIndex, showSuggestions, loading, error, inflight,
                   fetchCount>>

----------------------------------------------------------------------------
(* Handlers shared by the two hooks (the code is duplicated verbatim)      *)

\* handleClick without setHighlightedIndex(-1)
handleClick_KeepsIndex(suggestion) ==
    /\ inputValue' = suggestion.name
    /\ filteredSuggestions' = <<>>
    /\ showSuggestions' = FALSE
    /\ UNCHANGED highlightedIndex
    /\ error' = Null
    /\ onSelectCalls' = <<suggestion.name>>
    /\ history' = HistSelect

\* handleClick(suggestion): the selection; calls onSelect(suggestion.name)
handleClick(suggestion) ==
    /\ inputValue' = suggestion.name
    /\ filteredSuggestions' = <<>>
    /\ showSuggestions' = FALSE
    /\ highlightedIndex' = -1
    /\ error' = Null
    /\ onSelectCalls' = <<suggestion.name>>
    /\ history' = HistSelect

\* filteredSuggestions[i] read one position too early
At_OneBased(list, i) == IF i >= 1 /\ i <= Len(list) THEN <<list[i]>> ELSE <<>>

\* filteredSuggestions[i] with a JavaScript index: <<>> stands for undefined
At(list, i) == IF i >= 0 /\ i < Len(list) THEN <<list[i + 1]>> ELSE <<>>

\* handleKeyDown whose ArrowUp test is highlightedIndex >= 0
handleKeyDown_UpPastFirst(key) ==
    /\ phase = "mounted"
    /\ IF key = "ArrowDown" /\ highlightedIndex < Len(filteredSuggestions) - 1
       THEN /\ highlightedIndex' = highlightedIndex + 1
            /\ last' = Step("key", key, <<>>, <<>>, FALSE)
            /\ onSelectCalls' = <<>>
            /\ history' = HistKey(key)
            /\ UNCHANGED <<inputValue, filteredSuggestions, showSuggestions, error>>
       ELSE IF key = "ArrowUp" /\ highlightedIndex >= 0
       THEN /\ highlightedIndex' = highlightedIndex - 1
            /\ last' = Step("key", key, <<>>, <<>>, FALSE)
            /\ onSelectCalls' = <<>>
            /\ history' = HistKey(key)
            /\ UNCHANGED <<inputValue, filteredSuggestions, showSuggestions, error>>
       ELSE IF key = "Enter"
       THEN IF highlightedIndex >= 0
            THEN LET picked == At(filteredSuggestions, highlightedIndex) IN
                 IF picked = <<>>
                 THEN \* handleClick(undefined): reading suggestion.name throws a
                      \* TypeError before any setter runs; nothing catches it
                      /\ last' = Step("key", key, <<>>, <<>>, TRUE)
                      /\ onSelectCalls' = <<>>
                      /\ history' = HistKey(key)
                      /\ UNCHANGED <<inputValue, filteredSuggestions, showSuggestions,
                                     highlightedIndex, error>>
                 ELSE /\ handleClick(picked[1])
                      /\ last' = Step("key", key, <<>>, picked, FALSE)
            ELSE IF Len(filteredSuggestions) > 0
            THEN /\ handleClick(filteredSuggestions[1])
                 /\ last' = Step("key", key, <<>>, <<filteredSuggestions[1]>>, FALSE)
            ELSE /\ showSuggestions' = FALSE
                 /\ last' = Step("key", key, <<>>, <<>>, FALSE)
                 /\ onSelectCalls' = <<>>
                 /\ history' = HistKey(key)
                 /\ UNCHANGED <<inputValue, filteredSuggestions, highlightedIndex, error>>
       ELSE /\ last' = Step("key", key, <<>>, <<>>, FALSE)
            /\ onSelectCalls' = <<>>
            /\ history' = HistKey(key)
            /\ UNCHANGED <<inputValue, filteredSuggestions, showSuggestions,
                           highlightedIndex, error>>
    /\ UNCHANGED <<variant, phase, allSuggestions, loading, inflight, listeners, fetchCount>>

\* handleKeyDown(e) with e.key = key
handleKeyDown(key) ==
    /\ phase = "mounted"
    /\ IF key = "ArrowDown" /\ highlightedIndex < Len(filteredSuggestions) - 1
       THEN /\ highlightedIndex' = highlightedIndex + 1
            /\ last' = Step("key", key, <<>>, <<>>, FALSE)
            /\ onSelectCalls' = <<>>
            /\ history' = HistKey(key)
            /\ UNCHANGED <<inputValue, filteredSuggestions, showSuggestions, error>>
       ELSE IF key = "ArrowUp" /\ highlightedIndex > 0
       THEN /\ highlightedIndex' = highlightedIndex - 1
            /\ last' = Step("key", key, <<>>, <<>>, FALSE)
            /\ onSelectCalls' = <<>>
            /\ history' = HistKey(key)
            /\ UNCHANGED <<inputValue, filteredSuggestions, showSuggestions, error>>
       ELSE IF key = "Enter"
       THEN IF highlightedIndex >= 0
            THEN LET picked == At(filteredSuggestions, highlightedIndex) IN
                 IF picked = <<>>
                 THEN \* handleClick(undefined): reading suggestion.name throws a
                      \* TypeError before any setter runs; nothing catches it
                      /\ last' = Step("key", key, <<>>, <<>>, TRUE)
                      /\ onSelectCalls' = <<>>
                      /\ history' = HistKey(key)
                      /\ UNCHANGED <<inputValue, filteredSuggestions, showSuggestions,
                                     highlightedIndex, error>>
                 ELSE /\ handleClick(picked[1])
                      /\ last' = Step("key", key, <<>>, picked, FALSE)
            ELSE IF Len(filteredSuggestions) > 0
            THEN /\ handleClick(filteredSuggestions[1])
                 /\ last' = Step("key", key, <<>>, <<filteredSuggestions[1]>>, FALSE)
            ELSE /\ showSuggestions' = FALSE
                 /\ last' = Step("key", key, <<>>, <<>>, FALSE)
                 /\ onSelectCalls' = <<>>
                 /\ history' = HistKey(key)
                 /\ UNCHANGED <<inputValue, filteredSuggestions, highlightedIndex, error>>
       ELSE /\ last' = Step("key", key, <<>>, <<>>, FALSE)
            /\ onSelectCalls' = <<>>
            /\ history' = HistKey(key)
            /\ UNCHANGED <<inputValue, filteredSuggestions, showSuggestions,
                           highlightedIndex, error>>
    /\ UNCHANGED <<variant, phase, allSuggestions, loading, inflight, listeners, fetchCount>>

\* onClick of the i-th <li> (JavaScript index) of the rendered suggestion list
\* (Click is the name of the action; the handler it runs is handleClick)
Click(i) ==
    /\ phase = "mounted"
    /\ renderSuggestions = "list"
    /\ i \in 0..(Len(filteredSuggestions) - 1)
    /\ handleClick(filteredSuggestions[i + 1])
    /\ last' = Step("click", "", <<>>, <<filteredSuggestions[i + 1]>>, FALSE)
    /\ UNCHANGED <<variant, phase, allSuggestions, loading, inflight, listeners, fetchCount>>

\* handleClickOutside that also clears the input when it hides the dropdown
handleClickOutside_ClearsInput(target) ==
    /\ phase = "mounted"
    /\ listeners > 0
    /\ target = "inside" => suggestionsRefCurrent
    /\ IF suggestionsRefCurrent /\ target # "inside"
       THEN showSuggestions' = FALSE /\ inputValue' = <<>>
       ELSE UNCHANGED <<showSuggestions, inputValue>>
    /\ onSelectCalls' = <<>>
    /\ history' = HistOther
    /\ last' = Step("mousedown", target, <<>>, <<>>, FALSE)
    /\ UNCHANGED <<variant, phase, allSuggestions, filteredSuggestions,
                   highlightedIndex, loading, error, inflight, listeners, fetchCount>>

\* handleClickOutside(e): the document mousedown listener; target is "inside"
\* when e.target lies within the rendered <ul>, "outside" otherwise
handleClickOutside(target) ==
    /\ phase = "mounted"
    /\ listeners > 0
    /\ target = "inside" => suggestionsRefCurrent
    /\ IF suggestionsRefCurrent /\ target # "inside"
       THEN showSuggestions' = FALSE
       ELSE UNCHANGED showSuggestions
    /\ onSelectCalls' = <<>>
    /\ history' = HistOther
    /\ last' = Step("mousedown", target, <<>>, <<>>, FALSE)
    /\ UNCHANGED <<variant, phase, inputValue, allSuggestions, filteredSuggestions,
                   highlightedIndex, loading, error, inflight, listeners, fetchCount>>

----------------------------------------------------------------------------
(* Live-query hook: useAutocomplete                                        *)

\* fetchFilteredSuggestions that starts without setError(null)
LQ_fetchFilteredSuggestions_KeepsError(query) ==
    /\ UNCHANGED error
    /\ loading' = TRUE
    /\ inflight' = Append(inflight, query)
    /\ fetchCount' = fetchCount + 1

\* fetchFilteredSuggestions(query) up to the await of fetch()
LQ_fetchFilteredSuggestions(query) ==
    /\ error' = Null
    /\ loading' = TRUE
    /\ inflight' = Append(inflight, query)
    /\ fetchCount' = fetchCount + 1

\* handleChange without the inputValue !== userInput test
LQ_handleChange_EveryChange(userInput) ==
    /\ variant = "live"
    /\ phase = "mounted"
    /\ userInput # <<>> => fetchCount < MaxFetches
    /\ inputValue' = userInput
    /\ IF userInput # <<>>
       THEN /\ LQ_fetchFilteredSuggestions(userInput)
            /\ UNCHANGED <<filteredSuggestions, showSuggestions>>
       ELSE /\ filteredSuggestions' = <<>>
            /\ showSuggestions' = FALSE
            /\ error' = Null
            /\ UNCHANGED <<loading, inflight, fetchCount>>
    /\ onSelectCalls' = <<>>
    /\ history' = HistChange(IF userInput # <<>> THEN "pending" ELSE "void")
    /\ last' = Step("change", "", userInput, <<>>, FALSE)
    /\ UNCHANGED <<variant, phase, allSuggestions, highlightedIndex, listeners>>

\* handleChange(e) with e.currentTarget.value = userInput
LQ_handleChange(userInput) ==
    /\ variant = "live"
    /\ phase = "mounted"
    /\ (inputValue # userInput /\ userInput # <<>>) => fetchCount < MaxFetches
    /\ IF inputValue # userInput
       THEN /\ inputValue' = userInput
            /\ IF userInput # <<>>
               THEN /\ LQ_fetchFilteredSuggestions(userInput)
                    /\ UNCHANGED <<filteredSuggestions, showSuggestions>>
               ELSE /\ filteredSuggestions' = <<>>
                    /\ showSuggestions' = FALSE
                    /\ error' = Null
                    /\ UNCHANGED <<loading, inflight, fetchCount>>
       ELSE UNCHANGED <<inputValue, filteredSuggestions, showSuggestions, error,
                        loading, inflight, fetchCount>>
    /\ onSelectCalls' = <<>>
    /\ history' = HistChange(IF inputValue = userInput THEN history.newest
                                ELSE IF userInput # <<>> THEN "pending" ELSE "void")
    /\ last' = Step("change", "", userInput, <<>>, FALSE)
    /\ UNCHANGED <<variant, phase, allSuggestions, highlightedIndex, listeners>>

\* the sequence without its i-th element
RemoveAt(s, i) == SubSeq(s, 1, i - 1) \o SubSeq(s, i + 1, Len(s))

\* the success path fenced: a response whose query is no longer the input is dropped
LQ_fetchResolved_Fenced(i, data) ==
    /\ variant = "live"
    /\ i \in DOMAIN inflight
    /\ inflight' = RemoveAt(inflight, i)
    /\ IF phase = "mounted" /\ inflight[i] = inputValue
       THEN /\ filteredSuggestions' = toSuggestions(filterByName(data, inflight[i]))
            /\ showSuggestions' = TRUE
            /\ loading' = FALSE
       ELSE UNCHANGED <<filteredSuggestions, showSuggestions, loading>>
    /\ onSelectCalls' = <<>>
    /\ history' = HistComplete(i, "ok")
    /\ last' = Step("fetchOk", "", inflight[i], <<>>, FALSE)
    /\ UNCHANGED <<variant, phase, inputValue, allSuggestions, highlightedIndex,
                   error, listeners, fetchCount>>

\* the success path with setShowSuggestions(filtered.length > 0)
LQ_fetchResolved_ShowsOnlyMatches(i, data) ==
    /\ variant = "live"
    /\ i \in DOMAIN inflight
    /\ inflight' = RemoveAt(inflight, i)
    /\ IF phase = "mounted"
       THEN /\ filteredSuggestions' = toSuggestions(filterByName(data, inflight[i]))
            /\ showSuggestions' = (Len(filterByName(data, inflight[i])) > 0)
            /\ loading' = FALSE
       ELSE UNCHANGED <<filteredSuggestions, showSuggestions, loading>>
    /\ onSelectCalls' = <<>>
    /\ history' = HistComplete(i, "ok")
    /\ last' = Step("fetchOk", "", inflight[i], <<>>, FALSE)
    /\ UNCHANGED <<variant, phase, inputValue, allSuggestions, highlightedIndex,
                   error, listeners, fetchCount>>

\* fetchFilteredSuggestions after its awaits, response ok with body `data`:
\* the i-th pending request resolves. React drops state updates of an
\* unmounted component.
LQ_fetchResolved(i, data) ==
    /\ variant = "live"
    /\ i \in DOMAIN inflight
    /\ inflight' = RemoveAt(inflight, i)
    /\ IF phase = "mounted"
       THEN /\ filteredSuggestions' = toSuggestions(filterByName(data, inflight[i]))
            /\ showSuggestions' = TRUE
            /\ loading' = FALSE
       ELSE UNCHANGED <<filteredSuggestions, showSuggestions, loading>>
    /\ onSelectCalls' = <<>>
    /\ history' = HistComplete(i, "ok")
    /\ last' = Step("fetchOk", "", inflight[i], <<>>, FALSE)
    /\ UNCHANGED <<variant, phase, inputValue, allSuggestions, highlightedIndex,
                   error, listeners, fetchCount>>

\* setLoading(false) at the end of the try block instead of in finally
LQ_fetchRejected_KeepsLoading(i, kind) ==
    /\ variant = "live"
    /\ i \in DOMAIN inflight
    /\ inflight' = RemoveAt(inflight, i)
    /\ IF phase = "mounted"
       THEN /\ error' = ErrorMessage(kind)
            /\ filteredSuggestions' = <<>>
            /\ UNCHANGED loading
       ELSE UNCHANGED <<error, filteredSuggestions, loading>>
    /\ onSelectCalls' = <<>>
    /\ history' = HistComplete(i, "failed")
    /\ last' = Step("fetchFail", kind, inflight[i], <<>>, FALSE)
    /\ UNCHANGED <<variant, phase, inputValue, allSuggestions, highlightedIndex,
                   showSuggestions, listeners, fetchCount>>

\* the catch block without setFilteredSuggestions([])
LQ_fetchRejected_KeepsList(i, kind) ==
    /\ variant = "live"
    /\ i \in DOMAIN inflight
    /\ inflight' = RemoveAt(inflight, i)
    /\ IF phase = "mounted"
       THEN /\ error' = ErrorMessage(kind)
            /\ UNCHANGED filteredSuggestions
            /\ loading' = FALSE
       ELSE UNCHANGED <<error, filteredSuggestions, loading>>
    /\ onSelectCalls' = <<>>
    /\ history' = HistComplete(i, "failed")
    /\ last' = Step("fetchFail", kind, inflight[i], <<>>, FALSE)
    /\ UNCHANGED <<variant, phase, inputValue, allSuggestions, highlightedIndex,
                   showSuggestions, listeners, fetchCount>>

\* fetchFilteredSuggestions after its awaits, fetch rejected or !response.ok:
\* the catch block, then finally
LQ_fetchRejected(i, kind) ==
    /\ variant = "live"
    /\ i \in DOMAIN inflight
    /\ inflight' = RemoveAt(inflight, i)
    /\ IF phase = "mounted"
       THEN /\ error' = ErrorMessage(kind)
            /\ filteredSuggestions' = <<>>
            /\ loading' = FALSE
       ELSE UNCHANGED <<error, filteredSuggestions, loading>>
    /\ onSelectCalls' = <<>>
    /\ history' = HistComplete(i, "failed")
    /\ last' = Step("fetchFail", kind, inflight[i], <<>>, FALSE)
    /\ UNCHANGED <<variant, phase, inputValue, allSuggestions, highlightedIndex,
                   showSuggestions, listeners, fetchCount>>

----------------------------------------------------------------------------
(* Preload hook: useAutocompleteLoadingOnce                                *)

\* handleChange that filters the cache in place
PL_handleChange_FiltersCache(userInput) ==
    /\ variant = "preload"
    /\ phase = "mounted"
    /\ inputValue' = userInput
    /\ IF userInput # <<>>
       THEN /\ filteredSuggestions' = filterByName(allSuggestions, userInput)
            /\ allSuggestions' = filterByName(allSuggestions, userInput)
            /\ showSuggestions' = TRUE
       ELSE /\ filteredSuggestions' = <<>>
            /\ showSuggestions' = FALSE
            /\ UNCHANGED allSuggestions
    /\ onSelectCalls' = <<>>
    /\ history' = HistChange(IF userInput # <<>> THEN history.newest ELSE "void")
    /\ last' = Step("change", "", userInput, <<>>, FALSE)
    /\ UNCHANGED <<variant, phase, highlightedIndex, loading, error,
                   inflight, listeners, fetchCount>>

\* handleChange that fetches the collection again on every non-empty input
PL_handleChange_Refetches(userInput) ==
    /\ variant = "preload"
    /\ phase = "mounted"
    /\ inputValue' = userInput
    /\ IF userInput # <<>>
       THEN /\ filteredSuggestions' = filterByName(allSuggestions, userInput)
            /\ showSuggestions' = TRUE
            /\ inflight' = Append(inflight, <<>>)
            /\ fetchCount' = fetchCount + 1
       ELSE /\ filteredSuggestions' = <<>>
            /\ showSuggestions' = FALSE
            /\ UNCHANGED <<inflight, fetchCount>>
    /\ onSelectCalls' = <<>>
    /\ history' = HistChange(IF userInput # <<>> THEN history.newest ELSE "void")
    /\ last' = Step("change", "", userInput, <<>>, FALSE)
    /\ UNCHANGED <<variant, phase, allSuggestions, highlightedIndex, loading, error,
                   listeners>>

\* handleChange(e) with e.currentTarget.value = userInput
PL_handleChange(userInput) ==
    /\ variant = "preload"
    /\ phase = "mounted"
    /\ inputValue' = userInput
    /\ IF userInput # <<>>
       THEN /\ filteredSuggestions' = filterByName(allSuggestions, userInput)
            /\ showSuggestions' = TRUE
       ELSE /\ filteredSuggestions' = <<>>
            /\ showSuggestions' = FALSE
    /\ onSelectCalls' = <<>>
    /\ history' = HistChange(IF userInput # <<>> THEN history.newest ELSE "void")
    /\ last' = Step("change", "", userInput, <<>>, FALSE)
    /\ UNCHANGED <<variant, phase, allSuggestions, highlightedIndex, loading, error,
                   inflight, listeners, fetchCount>>

\* the continuation applied to a component that is no longer mounted
PL_fetchResolved_AfterUnmount(data) ==
    /\ variant = "preload"
    /\ inflight # <<>>
    /\ inflight' = Tail(inflight)
    /\ allSuggestions' = toSuggestions(data)
    /\ loading' = FALSE
    /\ onSelectCalls' = <<>>
    /\ history' = HistComplete(1, "ok")
    /\ last' = Step("fetchOk", "", <<>>, <<>>, FALSE)
    /\ UNCHANGED <<variant, phase, inputValue, filteredSuggestions, highlightedIndex,
                   showSuggestions, error, listeners, fetchCount>>

\* fetchAllSuggestions after its awaits, response ok with body `data`
PL_fetchResolved(data) ==
    /\ variant = "preload"
    /\ inflight # <<>>
    /\ inflight' = Tail(inflight)
    /\ IF phase = "mounted"
       THEN /\ allSuggestions' = toSuggestions(data)
            /\ loading' = FALSE
       ELSE UNCHANGED <<allSuggestions, loading>>
    /\ onSelectCalls' = <<>>
    /\ history' = HistComplete(1, "ok")
    /\ last' = Step("fetchOk", "", <<>>, <<>>, FALSE)
    /\ UNCHANGED <<variant, phase, inputValue, filteredSuggestions, highlightedIndex,
                   showSuggestions, error, listeners, fetchCount>>

\* the catch block without setError(...)
PL_fetchRejected_SwallowsError(kind) ==
    /\ variant = "preload"
    /\ inflight # <<>>
    /\ inflight' = Tail(inflight)
    /\ IF phase = "mounted"
       THEN /\ UNCHANGED error
            /\ allSuggestions' = <<>>
            /\ loading' = FALSE
       ELSE UNCHANGED <<error, allSuggestions, loading>>
    /\ onSelectCalls' = <<>>
    /\ history' = HistComplete(1, "failed")
    /\ last' = Step("fetchFail", kind, <<>>, <<>>, FALSE)
    /\ UNCHANGED <<variant, phase, inputValue, filteredSuggestions, highlightedIndex,
                   showSuggestions, listeners, fetchCount>>

\* fetchAllSuggestions after its awaits, fetch rejected or !response.ok
PL_fetchRejected(kind) ==
    /\ variant = "preload"
    /\ inflight # <<>>
    /\ inflight' = Tail(inflight)
    /\ IF phase = "mounted"
       THEN /\ error' = ErrorMessage(kind)
            /\ allSuggestions' = <<>>
            /\ loading' = FALSE
       ELSE UNCHANGED <<error, allSuggestions, loading>>
    /\ onSelectCalls' = <<>>
    /\ history' = HistComplete(1, "failed")
    /\ last' = Step("fetchFail", kind, <<>>, <<>>, FALSE)
    /\ UNCHANGED <<variant, phase, inputValue, filteredSuggestions, highlightedIndex,
                   showSuggestions, listeners, fetchCount>>

----------------------------------------------------------------------------
(* Specification                                                           *)

Next ==
    \/ Mount
    \/ Unmount
    \/ \E userInput \in Inputs : LQ_handleChange(userInput)
    \/ \E userInput \in Inputs : PL_handleChange(userInput)
    \/ \E key \in Keys : handleKeyDown(key)
    \/ \E i \in 0..(Len(Users) - 1) : Click(i)
    \/ \E target \in {"inside", "outside"} : handleClickOutside(target)
    \/ \E i \in 1..MaxFetches, data \in Responses : LQ_fetchResolved(i, data)
    \/ \E i \in 1..MaxFetches, kind \in Failures : LQ_fetchRejected(i, kind)
    \/ \E data \in Responses : PL_fetchResolved(data)
    \/ \E kind \in Failures : PL_fetchRejected(kind)

\* a pending fetch settles: the continuation of one of the awaited fetches runs
Complete ==
    \/ \E i \in 1..MaxFetches, data \in Responses : LQ_fetchResolved(i, data)
    \/ \E i \in 1..MaxFetches, kind \in Failures : LQ_fetchRejected(i, kind)
    \/ \E data \in Responses : PL_fetchResolved(data)
    \/ \E kind \in Failures : PL_fetchRejected(kind)

\* {renderSuggestions()} in the component: the renderer applied to the state
Render ==
    /\ last' = Step("render", renderSuggestions, <<>>, <<>>, FALSE)
    /\ UNCHANGED <<variant, phase, inputValue, allSuggestions, filteredSuggestions,
                   highlightedIndex, showSuggestions, loading, error, inflight,
                   listeners, fetchCount, onSelectCalls, history>>

\* every combination of the renderer's inputs, reachable by the hooks or not
RenderInit ==
    /\ variant \in {"live", "preload"}
    /\ phase = "mounted"
    /\ inputValue \in Inputs
    /\ allSuggestions = <<>>
    /\ filteredSuggestions \in {toSuggestions(data) : data \in Responses}
    /\ highlightedIndex \in -1..Len(Users)
    /\ showSuggestions \in BOOLEAN
    /\ loading \in BOOLEAN
    /\ error \in {Null} \cup {ErrorMessage(kind) : kind \in Failures}
    /\ inflight = <<>>
    /\ listeners = 1
    /\ fetchCount = 0
    /\ onSelectCalls = <<>>
    /\ last = Step("init", "", <<>>, <<>>, FALSE)
    /\ history = History("none", 0, FALSE)

\* the renderer as a pure function of arbitrary state
SpecRender == RenderInit /\ [][Render]_vars

Spec == Init /\ [][Next]_vars

\* the hooks with a network that answers every request: fetch() eventually
\* resolves or rejects, so a pending continuation eventually runs
FairSpec == Spec /\ WF_vars(Complete)

TypeOK ==
    /\ variant \in {"live", "preload"}
    /\ phase \in {"rendered", "mounted", "unmounted"}
    /\ highlightedIndex \in -1..Len(Users)
    /\ showSuggestions \in BOOLEAN
    /\ loading \in BOOLEAN
    /\ Len(inflight) <= MaxFetches
    /\ fetchCount \in 0..MaxFetches
    /\ listeners \in 0..1

----------------------------------------------------------------------------
(* getHighlightedText (the code is the same in the two hooks)               *)

MaxNameLen == 4

MaxHighlightLen == 2

\* the letters names and inputs are made of here
Letters == { "a", "A", "b", "B" }

RECURSIVE Words(_)
\* the strings of at most n letters
Words(n) ==
    IF n = 0 THEN { <<>> }
    ELSE LET shorter == Words(n - 1)
         IN  shorter \cup { Append(w, c) : w \in { v \in shorter : Len(v) = n - 1 },
                                           c \in Letters }

\* suggestion.name of a rendered suggestion
Names == Words(MaxNameLen) \ { <<>> }

\* inputValue when the list is rendered: non-empty, plain letters
Highlights == Words(MaxHighlightLen) \ { <<>> }

\* new RegExp(`(${highlight})`, 'gi') applied to text: the start (1-based) of the
\* leftmost match, 0 when there is none
firstMatch(text, highlight) ==
    LET starts == { i \in 1..(Len(text) - Len(highlight) + 1) :
                      toLowerCase(SubSeq(text, i, i + Len(highlight) - 1))
                          = toLowerCase(highlight) }
    IN  IF starts = {} THEN 0
        ELSE CHOOSE i \in starts : \A j \in starts : i <= j

RECURSIVE split(_, _)
\* text.split(/(highlight)/gi): the pieces between the matches, each followed by
\* the captured match; empty pieces are kept
split(text, highlight) ==
    LET i == firstMatch(text, highlight)
    IN  IF i = 0 THEN << text >>
        ELSE << SubSeq(text, 1, i - 1), SubSeq(text, i, i + Len(highlight) - 1) >>
                 \o split(SubSeq(text, i + Len(highlight), Len(text)), highlight)

\* getHighlightedText that compares part === highlight
getHighlightedText_ExactCase(text, highlight) ==
    LET parts == split(text, highlight)
    IN  [index \in DOMAIN parts |->
            [part |-> parts[index], highlight |-> parts[index] = highlight]]

\* getHighlightedText(text, highlight): the fragment's children in order;
\* highlight is TRUE for a <span className="highlight">, FALSE for plain text
getHighlightedText(text, highlight) ==
    LET parts == split(text, highlight)
    IN  [index \in DOMAIN parts |->
            [part |-> parts[index],
             highlight |-> toLowerCase(parts[index]) = toLowerCase(highlight)]]

\* a rendered list of one suggestion, for every name and every input
HighlightInit ==
    /\ variant \in {"live", "preload"}
    /\ phase = "mounted"
    /\ inputValue \in Highlights
    /\ allSuggestions = <<>>
    /\ filteredSuggestions \in { << [id |-> 1, name |-> name] >> : name \in Names }
    /\ highlightedIndex = -1
    /\ showSuggestions = TRUE
    /\ loading = FALSE
    /\ error = Null
    /\ inflight = <<>>
    /\ listeners = 1
    /\ fetchCount = 0
    /\ onSelectCalls = <<>>
    /\ history = History("none", 0, FALSE)
    /\ last = Step("init", "", <<>>, <<>>, FALSE)

\* {getHighlightedText(suggestion.name, inputValue)} of one <li> of the list
RenderHighlight ==
    /\ renderSuggestions = "list"
    /\ \E index \in DOMAIN filteredSuggestions :
         LET suggestion == filteredSuggestions[index]
         IN  last' = [ev |-> "highlight",
                      text |-> suggestion.name,
                      highlight |-> inputValue,
                      children |-> getHighlightedText(suggestion.name, inputValue)]
    /\ UNCHANGED <<variant, phase, inputValue, allSuggestions, filteredSuggestions,
                   highlightedIndex, showSuggestions, loading, error, inflight,
                   listeners, fetchCount, onSelectCalls, history>>

SpecHighlight == HighlightInit /\ [][RenderHighlight]_vars

----------------------------------------------------------------------------
(* Properties                                                              *)

\* name matches the input as the hooks' filter decides it
Matches(name, input) == includes(toLowerCase(name), toLowerCase(input))

\* the renderer's third branch is reached: the candidate set is what the user sees
Displayed ==
    /\ phase = "mounted"
    /\ inputValue # <<>>
    /\ ~loading
    /\ ~Truthy(error)
    /\ showSuggestions

\* C1: whenever the input is non-empty and the suggestion list is displayed
\* (not loading, no error, visible), every suggestion of the candidate set has
\* a name that contains the current input, ignoring case.
C1_DisplayedMatchInput ==
    Displayed =>
        \A i \in DOMAIN filteredSuggestions :
            Matches(filteredSuggestions[i].name, inputValue)

\* C1 restricted to the preload hook, where every change re-filters at once
C1_PreloadDisplayedMatchInput ==
    variant = "preload" => C1_DisplayedMatchInput

\* C2: a selection of suggestion s, by click or by Enter, leaves the input equal
\* to s.name, the candidate set empty, the dropdown hidden, the highlighted
\* index -1, and has called onSelect exactly once, with s.name.
C2_SelectionEffect ==
    last.sel # <<>> =>
        /\ inputValue = last.sel[1].name
        /\ filteredSuggestions = <<>>
        /\ showSuggestions = FALSE
        /\ highlightedIndex = -1
        /\ onSelectCalls = <<last.sel[1].name>>

C2_Witness ==
    /\ last.ev = "key"
    /\ last.sel # <<>>
    /\ last.sel[1].id = 2

\* C3: in the live-query hook a step issues one request when it is a change
\* event whose value is non-empty and differs from the input value before it,
\* and no request otherwise (so the requests issued count those changes).
C3_OneFetchPerDistinctChange ==
    [][variant = "live" =>
         fetchCount' = fetchCount +
            (IF /\ last'.ev = "change"
                /\ last'.value # <<>>
                /\ last'.value # inputValue
             THEN 1 ELSE 0)]_vars

C3_Witness ==
    /\ variant = "live"
    /\ last.ev = "change"
    /\ last.value # <<>>
    /\ fetchCount = 2
    /\ Len(inflight) = 2

\* C4: the preload hook has issued no request before mount and exactly one
\* from mount on, whatever events and whatever outcome of that request follow.
C4_PreloadOneFetch ==
    variant = "preload" => fetchCount = (IF phase = "rendered" THEN 0 ELSE 1)

C4_Witness ==
    /\ variant = "preload"
    /\ phase = "mounted"
    /\ Truthy(error)
    /\ inflight = <<>>
    /\ last.ev = "change"
    /\ last.value # <<>>

\* C5: in the live-query hook of a mounted component, right after a fetch has
\* failed the candidate set is empty, the error is a non-empty message,
\* loading is false, the renderer shows the error view, and nothing was thrown.
C5_LiveFetchFailure ==
    (variant = "live" /\ phase = "mounted" /\ last.ev = "fetchFail") =>
        /\ filteredSuggestions = <<>>
        /\ Truthy(error)
        /\ loading = FALSE
        /\ renderSuggestions = "error"
        /\ last.threw = FALSE

C5_Witness ==
    /\ variant = "live"
    /\ phase = "mounted"
    /\ last.ev = "fetchFail"
    /\ last.key = "http"
    /\ inflight # <<>>

\* C6: the highlighted index is -1 or a valid index of the candidate set.
C6_IndexInRange ==
    \/ highlightedIndex = -1
    \/ (0 <= highlightedIndex /\ highlightedIndex < Len(filteredSuggestions))

\* a non-stuttering step that is the handling of key `key`
KeyStep(key) == last'.ev = "key" /\ last'.key = key

\* the step selected suggestion s: the effects of a selection, onSelect called once
Selects(s) ==
    /\ last'.sel = <<s>>
    /\ inputValue' = s.name
    /\ onSelectCalls' = <<s.name>>
    /\ filteredSuggestions' = <<>>
    /\ showSuggestions' = FALSE
    /\ highlightedIndex' = -1

\* C7: Enter selects the suggestion at the highlighted index when that index is
\* >= 0, else the first suggestion when the candidate set is non-empty, else
\* hides the dropdown without changing the input or calling onSelect.
C7_EnterBehaviour ==
    [][KeyStep("Enter") =>
         IF highlightedIndex >= 0
         THEN /\ highlightedIndex < Len(filteredSuggestions)
              /\ Selects(filteredSuggestions[highlightedIndex + 1])
         ELSE IF Len(filteredSuggestions) > 0
         THEN Selects(filteredSuggestions[1])
         ELSE /\ showSuggestions' = FALSE
              /\ inputValue' = inputValue
              /\ onSelectCalls' = <<>>]_vars

\* C8: the dropdown is never flagged visible while the input is empty.
C8_EmptyInputHidden ==
    inputValue = <<>> => showSuggestions = FALSE

\* the step replaces the candidate set, as the hooks' code does it
ReplacesCandidates ==
    \/ variant = "live" /\ phase = "mounted" /\ last'.ev \in {"fetchOk", "fetchFail"}
    \/ variant = "live" /\ last'.ev = "change" /\ last'.value = <<>> /\ inputValue # <<>>
    \/ variant = "preload" /\ last'.ev = "change"
    \/ last'.sel # <<>>

\* C9: every step that replaces the candidate set (fetch completion, local
\* re-filter, clearing the input, selection) leaves the highlighted index -1.
C9_ReplaceResetsIndex ==
    [][ReplacesCandidates => highlightedIndex' = -1]_vars

\* C10: ArrowDown moves the highlighted index i to i+1 exactly when i < n-1,
\* ArrowUp to i-1 exactly when i > 0, otherwise the index stays; neither key
\* changes the input, the candidate set, visibility, error or loading.
C10_ArrowKeys ==
    [][(KeyStep("ArrowDown") \/ KeyStep("ArrowUp")) =>
         /\ highlightedIndex' =
               IF KeyStep("ArrowDown")
               THEN (IF highlightedIndex < Len(filteredSuggestions) - 1
                     THEN highlightedIndex + 1 ELSE highlightedIndex)
               ELSE (IF highlightedIndex > 0
                     THEN highlightedIndex - 1 ELSE highlightedIndex)
         /\ UNCHANGED <<inputValue, filteredSuggestions, showSuggestions, error, loading>>]_vars

C10_Witness ==
    /\ last.ev = "key"
    /\ last.key = "ArrowUp"
    /\ highlightedIndex = 0
    /\ Len(filteredSuggestions) >= 2

\* C11 as stated: whenever the dropdown is flagged hidden or the input is
\* empty, renderSuggestions returns no visual output.
C11_HiddenRendersNothing ==
    (showSuggestions = FALSE \/ inputValue = <<>>) => renderSuggestions = "null"

\* C11, amended: whenever the dropdown is flagged hidden or the input is empty,
\* renderSuggestions returns no output provided loading is false and error is
\* null; the preload hook returns no output whenever the input is empty, also
\* while loading or after an error.
C11_HiddenRendersNothingUnlessBusy ==
    /\ ((showSuggestions = FALSE \/ inputValue = <<>>) /\ ~loading /\ error = Null)
          => renderSuggestions = "null"
    /\ (variant = "preload" /\ inputValue = <<>>) => renderSuggestions = "null"

C11_Witness ==
    /\ variant = "live"
    /\ last.ev = "mousedown"
    /\ last.key = "outside"
    /\ showSuggestions = FALSE
    /\ inputValue # <<>>
    /\ filteredSuggestions # <<>>
    /\ ~loading
    /\ error = Null

\* C12: a mousedown outside the dropdown while the dropdown element is rendered
\* (loading, error, no-match or list view) leaves the dropdown flagged hidden
\* and renderSuggestions returning no output.
C12_OutsideClickHides ==
    [][(last'.ev = "mousedown" /\ last'.key = "outside" /\ suggestionsRefCurrent) =>
         /\ showSuggestions' = FALSE
         /\ renderSuggestions' = "null"]_vars

\* C13: loading and error exclude each other: in no reachable state is loading
\* true while error is non-null, whatever the interleaving of change events,
\* fetch starts and fetch completions.
C13_LoadingExcludesError ==
    ~(loading /\ error # Null)

C13_Witness ==
    /\ variant = "live"
    /\ phase = "mounted"
    /\ loading
    /\ error = Null
    /\ last.ev = "change"
    /\ Len(inflight) = 2
    /\ showSuggestions

\* C14: the input value changes only in a change event, to the typed value, or
\* in a selection, to the selected suggestion's name; every other step (fetch
\* start and completion, arrow keys, Enter on an empty candidate set, outside
\* click, mount, unmount) leaves it unchanged.
C14_InputFrame ==
    [][inputValue' # inputValue =>
         \/ last'.ev = "change" /\ inputValue' = last'.value
         \/ last'.sel # <<>> /\ inputValue' = last'.sel[1].name]_vars

C14_Witness ==
    /\ variant = "live"
    /\ phase = "mounted"
    /\ last.ev = "fetchOk"
    /\ inputValue # <<>>
    /\ inputValue # last.value
    /\ filteredSuggestions # <<>>

\* the state the preload hook is in once its initial fetch has failed
PreloadFailed ==
    /\ allSuggestions = <<>>
    /\ loading = FALSE
    /\ error # Null

\* C15 as stated: once the initial fetch of a mounted preload hook has failed,
\* in every later state the cached set is empty, loading is false, error is
\* non-null and the renderer shows the error message.
C15_PreloadFailureShown ==
    [][variant = "preload" =>
         (((phase = "mounted" /\ last'.ev = "fetchFail") \/ PreloadFailed) =>
              (PreloadFailed' /\ renderSuggestions' = "error"))]_vars

\* C15, amended: once the initial fetch of a mounted preload hook has failed,
\* in every later state the cached set is empty, loading is false and error is
\* non-null; the renderer shows the error message while the input is non-empty
\* and nothing while the input is empty.
C15_PreloadFailureShownOnInput ==
    [][variant = "preload" =>
         (((phase = "mounted" /\ last'.ev = "fetchFail") \/ PreloadFailed) =>
              /\ PreloadFailed'
              /\ renderSuggestions' = (IF inputValue' # <<>> THEN "error" ELSE "null"))]_vars

C15_Witness ==
    /\ variant = "preload"
    /\ PreloadFailed
    /\ last.ev = "key"
    /\ last.key = "Enter"
    /\ inputValue # <<>>
    /\ renderSuggestions = "error"

\* the step just taken was a successful fetch (live-query) or local filter
\* (preload) for a non-empty input that produced an empty candidate set
EmptyResultStep ==
    /\ phase = "mounted"
    /\ filteredSuggestions = <<>>
    /\ \/ variant = "live" /\ last.ev = "fetchOk" /\ last.value # <<>>
       \/ variant = "preload" /\ last.ev = "change" /\ last.value # <<>>

\* C16 as stated: after a successful fetch/filter for a non-empty input that
\* yields an empty candidate set, the dropdown is flagged visible and the
\* renderer shows the "No match" view.
C16_EmptyResultShowsNoMatch ==
    EmptyResultStep => (showSuggestions = TRUE /\ renderSuggestions = "nomatch")

\* C16, amended: after such a step the dropdown is flagged visible, and the
\* renderer shows the "No match" view when loading is false, error is null and
\* the input is non-empty; otherwise the loading or error view takes its place
\* (or nothing, when the input is empty).
C16_EmptyResultVisible ==
    EmptyResultStep =>
        /\ showSuggestions = TRUE
        /\ (~loading /\ error = Null /\ inputValue # <<>>) => renderSuggestions = "nomatch"

C16_Witness ==
    /\ variant = "live"
    /\ EmptyResultStep
    /\ renderSuggestions = "nomatch"
    /\ inflight = <<>>
    /\ inputValue = last.value

\* the view an <li> of the dropdown belongs to
ViewOf(className) ==
    IF className = "loading-message" THEN "loading"
    ELSE IF className = "error-message" THEN "error"
    ELSE IF className = "no-suggestions" THEN "nomatch"
    ELSE "list"

\* the views present in the rendered element
RenderedViews == {ViewOf(renderedItems[i]) : i \in DOMAIN renderedItems}

\* C17: for every combination of loading, error, visibility, input, candidate
\* set and highlighted index, the rendered element holds items of at most one
\* of the four views (loading, error, no match, list), the one renderSuggestions
\* returns from; no state renders two views together.
C17_OneViewAtATime ==
    /\ Cardinality(RenderedViews) <= 1
    /\ RenderedViews = (IF renderSuggestions = "null" THEN {} ELSE {renderSuggestions})

C17_Witness ==
    /\ last.ev = "render"
    /\ loading
    /\ error # Null
    /\ showSuggestions
    /\ inputValue # <<>>
    /\ Len(filteredSuggestions) >= 2
    /\ RenderedViews = {"loading"}

\* C18: an instance has exactly one mousedown listener on document from mount
\* until unmount and none before mount or after unmount, whatever other events
\* occurred in between.
C18_OneListenerWhileMounted ==
    listeners = (IF phase = "mounted" THEN 1 ELSE 0)

C18_Witness ==
    /\ phase = "unmounted"
    /\ listeners = 0
    /\ last.ev = "unmount"
    /\ inputValue # <<>>
    /\ filteredSuggestions # <<>>
    /\ highlightedIndex >= 0

\* C19: in the live-query hook a pending request is neither cancelled nor
\* fenced: whenever a request completes successfully on a mounted component its
\* own result is installed (every candidate matches that request's query, the
\* dropdown is flagged visible, loading is cleared), whatever the input value
\* is by then. The witness is the execution the claim describes: requests for
\* 'a' then 'ab', completed in the opposite order, leave the candidates of 'a'
\* under the input 'ab'.
C19_CompletionNeverFenced ==
    (variant = "live" /\ phase = "mounted" /\ last.ev = "fetchOk") =>
        /\ \A i \in DOMAIN filteredSuggestions :
              Matches(filteredSuggestions[i].name, last.value)
        /\ showSuggestions = TRUE
        /\ loading = FALSE

C19_Witness ==
    /\ variant = "live"
    /\ phase = "mounted"
    /\ last.ev = "fetchOk"
    /\ last.value = <<"a">>
    /\ inputValue = <<"a", "b">>
    /\ fetchCount = 2
    /\ inflight = <<>>
    /\ filteredSuggestions = toSuggestions(filterByName(Users, <<"a">>))
    /\ \E i \in DOMAIN filteredSuggestions :
          ~Matches(filteredSuggestions[i].name, inputValue)

\* C20: the loading flag is always cleared: every fetch completion on a mounted
\* component, successful or failed, leaves loading false, and, every request
\* eventually completing, a mounted component that is loading eventually is not
\* loading any more (or has been unmounted, which discards its state).
C20_LoadingCleared ==
    /\ []((phase = "mounted" /\ last.ev \in {"fetchOk", "fetchFail"}) => loading = FALSE)
    /\ ((phase = "mounted" /\ loading) ~> (loading = FALSE \/ phase = "unmounted"))

C20_Witness ==
    /\ variant = "preload"
    /\ phase = "mounted"
    /\ last.ev = "fetchOk"
    /\ loading = FALSE
    /\ allSuggestions # <<>>
    /\ inputValue # <<>>

\* C21: in the live-query hook the error describes the outcome of the most
\* recent fetch attempt: whenever no request is in flight and no selection or
\* input-clearing has happened since the most recently issued request, error is
\* non-null exactly when that request failed.
C21_ErrorIsNewestOutcome ==
    (variant = "live" /\ phase = "mounted" /\ inflight = <<>>
        /\ history.newest \in {"ok", "failed"}) =>
        (error # Null <=> history.newest = "failed")

\* C22: in the preload hook, once the initial fetch has completed no later step
\* (change, arrow keys, Enter, click selection, outside click, unmount) changes
\* loading, error or the cached full set.
C22_PreloadStateRetained ==
    [][(variant = "preload" /\ fetchCount = 1 /\ inflight = <<>>) =>
         UNCHANGED <<loading, error, allSuggestions>>]_vars

C22_Witness ==
    /\ variant = "preload"
    /\ inflight = <<>>
    /\ last.ev = "click"
    /\ last.sel # <<>>
    /\ Len(allSuggestions) = 3
    /\ error = Null
    /\ loading = FALSE

\* C23: in both hooks, starting from highlighted index -1 on a candidate set of
\* n >= 1 items, pressing ArrowDown k >= 1 times and then Enter, with no other
\* step in between, selects the item at position min(k, n) - 1 (0-based), and
\* leaves the dropdown hidden and the highlighted index -1.
C23_DownsThenEnter ==
    [][(history.downs >= 1 /\ filteredSuggestions # <<>> /\ KeyStep("Enter")) =>
         LET n == Len(filteredSuggestions)
             k == history.downs
             position == (IF k < n THEN k ELSE n) - 1
         IN  /\ Selects(filteredSuggestions[position + 1])
             /\ showSuggestions' = FALSE
             /\ highlightedIndex' = -1]_vars

\* three presses on two items, then Enter: the last item was selected
C23_Witness ==
    /\ last.ev = "key"
    /\ last.key = "Enter"
    /\ history.pressed = 3
    /\ last.sel = <<[id |-> 2, name |-> <<"B", "a">>]>>
    /\ inputValue = <<"B", "a">>
    /\ highlightedIndex = -1
    /\ ~showSuggestions

RECURSIVE Concat(_)
\* the parts of a rendered fragment joined in order
Concat(children) ==
    IF children = <<>> THEN <<>>
    ELSE Head(children).part \o Concat(Tail(children))

\* C24: in both hooks, for a displayed suggestion and a non-empty input of plain
\* letters, getHighlightedText splits the name into consecutive parts whose
\* concatenation is the name; the emphasized parts are exactly the parts equal to
\* the input ignoring case, and no other part contains an occurrence of the input.
C24_HighlightedParts ==
    last.ev = "highlight" =>
        /\ Concat(last.children) = last.text
        /\ \A index \in DOMAIN last.children :
             LET child == last.children[index]
             IN  /\ child.highlight <=>
                        toLowerCase(child.part) = toLowerCase(last.highlight)
                 /\ ~child.highlight => ~Matches(child.part, last.highlight)

\* 'AbaB' with input 'ab': two occurrences in different case, both emphasized
C24_Witness ==
    /\ last.ev = "highlight"
    /\ last.text = <<"A", "b", "a", "B">>
    /\ last.highlight = <<"a", "b">>
    /\ last.children = << [part |-> <<>>, highlight |-> FALSE],
                          [part |-> <<"A", "b">>, highlight |-> TRUE],
                          [part |-> <<>>, highlight |-> FALSE],
                          [part |-> <<"a", "B">>, highlight |-> TRUE],
                          [part |-> <<>>, highlight |-> FALSE] >>

\* C25: in the live-query hook loading is true in every state in which at least
\* one issued request has not completed yet, also when several requests are in
\* flight and one of them completes.
C25_LoadingWhilePending ==
    (variant = "live" /\ phase = "mounted" /\ inflight # <<>>) => loading

\* C26: in both hooks, after a selection the dropdown stays closed until the next
\* change event: visibility stays false and the candidate set stays empty
\* whatever completions, key presses or outside clicks happen in between.
C26_ClosedAfterSelection ==
    (phase = "mounted" /\ history.closed) =>
        (~showSuggestions /\ filteredSuggestions = <<>>)

\* C27: in both hooks onSelect is called only with the name of a suggestion that
\* is displayed at that moment: when Enter or a click selects, the renderer was
\* showing the list and the selected suggestion is one of its elements.
C27_SelectsDisplayedOnly ==
    [][onSelectCalls' # <<>> =>
         /\ renderSuggestions = "list"
         /\ \E index \in DOMAIN filteredSuggestions :
              filteredSuggestions[index].name = onSelectCalls'[1]]_vars

\* C28: in the preload hook, whenever the initial fetch has completed
\* successfully, the input is non-empty and the dropdown is visible, the
\* candidate set is exactly the sub-sequence of the cached set whose names
\* contain the input ignoring case, also when the user typed before the fetch
\* completed.
C28_CandidatesAreCachedMatches ==
    (/\ variant = "preload"
     /\ phase = "mounted"
     /\ fetchCount = 1
     /\ inflight = <<>>
     /\ error = Null
     /\ inputValue # <<>>
     /\ showSuggestions) =>
        filteredSuggestions = filterByName(allSuggestions, inputValue)

====
